---------------------------- MODULE Spec2Model ----------------------------
(***************************************************************************)
(* Model of clightd (src/clightd/src/clightd.c): a bus service exposing    *)
(* setbrightness / getbrightness / getmaxbrightness / getactualbrightness  *)
(* / captureframes, each resolving a udev device and reading or writing    *)
(* one sysfs attribute, served by the single-threaded loop of main().      *)
(*                                                                         *)
(* The udev device store and the bus are external: the store is a set of   *)
(* present devices with attribute texts (a text or the null pointer), the  *)
(* bus is a queue of method calls.  Attribute texts are strings of         *)
(* characters; atoi and sprintf("%d") are computed on them.                *)
(***************************************************************************)
EXTENDS Integers, Sequences, FiniteSets, TLC

(***************************************************************************)
(* Bounds of the model.                                                    *)
(***************************************************************************)
MaxCalls == 2       \* method calls the bus delivers in one run
MaxQueue == 2       \* calls queued on the bus at one time
MaxEnvSteps == 1    \* hot-plug / hardware changes of the device store in one run

(***************************************************************************)
(* Devices, attributes and texts.                                          *)
(***************************************************************************)
Backlight == {"intel_backlight", "acpi_video0"}
Video4linux == {"video0"}
Devices == Backlight \cup Video4linux

SubsystemDevices(subsystem) ==
    IF subsystem = "backlight" THEN Backlight ELSE Video4linux

Attributes == {"brightness", "max_brightness", "actual_brightness"}

\* The null pointer udev_device_get_sysattr_value returns for an attribute
\* that does not exist or cannot be read; no text is equal to it.
NULL == <<"(null)">>

\* Texts the hardware may expose: a decimal number, garbage, or nothing.
HwTexts == {NULL, <<"x">>, <<"5">>, <<"1", "0">>}

IsDigit(c) == c \in {"0", "1", "2", "3", "4", "5", "6", "7", "8", "9"}

DigitVal(c) ==
    CASE c = "0" -> 0 [] c = "1" -> 1 [] c = "2" -> 2 [] c = "3" -> 3
      [] c = "4" -> 4 [] c = "5" -> 5 [] c = "6" -> 6 [] c = "7" -> 7
      [] c = "8" -> 8 [] c = "9" -> 9

DigitChar(n) ==
    CASE n = 0 -> "0" [] n = 1 -> "1" [] n = 2 -> "2" [] n = 3 -> "3"
      [] n = 4 -> "4" [] n = 5 -> "5" [] n = 6 -> "6" [] n = 7 -> "7"
      [] n = 8 -> "8" [] n = 9 -> "9"

IsSpace(c) == c \in {" ", "\t", "\n"}

RECURSIVE SkipSpace(_)
SkipSpace(s) ==
    IF s # <<>> /\ IsSpace(Head(s)) THEN SkipSpace(Tail(s)) ELSE s

RECURSIVE AtoiDigits(_, _)
AtoiDigits(s, acc) ==
    IF s = <<>> \/ ~IsDigit(Head(s)) THEN acc
    ELSE AtoiDigits(Tail(s), acc * 10 + DigitVal(Head(s)))

\* atoi of a non-null text: leading blanks, an optional sign, then the longest
\* run of digits; 0 when there is none.
atoi(s) ==
    LET t == SkipSpace(s) IN
    IF t # <<>> /\ Head(t) = "-" THEN 0 - AtoiDigits(Tail(t), 0)
    ELSE IF t # <<>> /\ Head(t) = "+" THEN AtoiDigits(Tail(t), 0)
    ELSE AtoiDigits(t, 0)

RECURSIVE DecimalDigits(_)
DecimalDigits(n) ==
    IF n < 10 THEN <<DigitChar(n)>>
    ELSE DecimalDigits(n \div 10) \o <<DigitChar(n % 10)>>

\* sprintf(val, "%d", value)
sprintf_d(value) ==
    IF value < 0 THEN <<"-">> \o DecimalDigits(0 - value) ELSE DecimalDigits(value)

(***************************************************************************)
(* Method calls and replies.                                               *)
(***************************************************************************)
Getters == {"getbrightness", "getmaxbrightness", "getactualbrightness"}

\* The attribute each getter reads (lines 120, 155, 190).
GetterAttr(op) ==
    CASE op = "getbrightness" -> "brightness"
      [] op = "getmaxbrightness" -> "max_brightness"
      [] op = "getactualbrightness" -> "actual_brightness"

\* Inputs: the device name argument ("" asks for the first device of the
\* subsystem) and the integer argument.
BacklightNames == {"", "intel_backlight"}
VideoNames == {"", "video0"}
Values == {-1, 0, 10, 1000000000}
FrameCounts == {5}
CaptureAverages == {0, 42}

MethodCalls ==
    {[op |-> "setbrightness", name |-> n, value |-> v] :
        n \in BacklightNames, v \in Values}
    \cup {[op |-> g, name |-> n, value |-> 0] : g \in Getters, n \in BacklightNames}
    \cup {[op |-> "captureframes", name |-> n, value |-> f] :
        n \in VideoNames, f \in FrameCounts}

NoCall == [op |-> "none", name |-> "", value |-> 0]

SD_BUS_ERROR_INVALID_ARGS == "org.freedesktop.DBus.Error.InvalidArgs"
SD_BUS_ERROR_FILE_NOT_FOUND == "org.freedesktop.DBus.Error.FileNotFound"
SD_BUS_ERROR_ACCESS_DENIED == "org.freedesktop.DBus.Error.AccessDenied"

\* An sd_bus_error: its name, its message format and the %d argument.
BusError(name, msg, arg) == [name |-> name, msg |-> msg, arg |-> arg]
NoError == BusError("", "", 0)

\* A message sent back to the caller: a method return carrying val, or the
\* error the handler set.
MethodReturn(val) == [kind |-> "return", err |-> NoError, val |-> val]
ErrorReply(e) == [kind |-> "error", err |-> e, val |-> 0]

(***************************************************************************)
(* Device handles: the struct udev_device pointers of the handlers.        *)
(***************************************************************************)
\* A handle created during the call numbered `call` for device `d`.
Handle(call, d) == [call |-> call, dev |-> d]
NULL_DEV == Handle(0, "NULL")
\* An indeterminate non-null pointer: what `dev` holds when it is read
\* without ever having been assigned.
WILD_DEV == Handle(0, "wild")
IsDevice(h) == h.dev \in Devices

\* Events of the device capability during one call: what was done, on which
\* handle, to which attribute, with which text, and the result code.
Event(ev, h, attr, text, rc) ==
    [ev |-> ev, h |-> h, attr |-> attr, text |-> text, rc |-> rc]

VARIABLES
    present,     \* devices that exist now
    attrs,       \* attrs[d][a]: text of attribute a of backlight device d, or NULL
    queue,       \* method calls the bus holds for this service
    pc,          \* main(): "process", "handler", "wait", "finish", "exited", "crashed"
    hpc,         \* position inside the running handler, "idle" when none runs
    cur,         \* the message m being handled, NoCall when none
    seq,         \* number of calls dispatched so far
    dev,         \* the handler's local dev
    max,         \* method_setbrightness's local max
    r,           \* the handler's return value
    ret_error,   \* the handler's *ret_error
    sent,        \* replies sent for the call being handled
    handles,     \* device handles created and not yet unreferenced
    io,          \* device-capability events of the call being handled
    before,      \* attrs as they were when the call was dispatched
    prev,        \* the last completed call and the replies it got
    replied,     \* number of calls a reply has been sent for
    nenv,        \* device-store changes so far
    main_r,      \* main's local r: the result of the last bus operation
    unrefs,      \* how often slot, bus and udev have been unreferenced
    status       \* the exit status of the process, "running" until it ends

vars == <<present, attrs, queue, pc, hpc, cur, seq, dev, max, r, ret_error,
          sent, handles, io, before, prev, replied, nenv, main_r, unrefs, status>>

NoPrev == [call |-> NoCall, sent |-> <<>>]

\* The objects main holds: the vtable slot, the bus connection and the udev
\* context (lines 260-264), none of them unreferenced yet.
NoUnrefs == [slot |-> 0, bus |-> 0, udev |-> 0]

\* Negative errno values sd_bus_process and sd_bus_wait may return.
BusErrnos == {-104}

InitAttrs ==
    [d \in Backlight |->
        [brightness |-> IF d = "intel_backlight" THEN <<"5">> ELSE <<"0">>,
         max_brightness |-> IF d = "intel_backlight" THEN <<"1", "0">> ELSE <<"5">>,
         actual_brightness |-> <<"5">>]]

\* A backlight whose max_brightness is the largest 32-bit int.
WideAttrs ==
    [InitAttrs EXCEPT !["intel_backlight"]["max_brightness"] =
        <<"2", "1", "4", "7", "4", "8", "3", "6", "4", "7">>]

\* The machine the service is started on: no device at all, one backlight
\* device and a camera (with a small or a wide brightness range), or both
\* backlight devices and a camera.
InitialMachines ==
    {[present |-> {}, attrs |-> InitAttrs],
     [present |-> {"intel_backlight", "video0"}, attrs |-> InitAttrs],
     [present |-> {"intel_backlight", "video0"}, attrs |-> WideAttrs],
     [present |-> Devices, attrs |-> InitAttrs]}

Init ==
    /\ \E machine \in InitialMachines :
        /\ present = machine.present
        /\ attrs = machine.attrs
    /\ queue = <<>>
    /\ pc = "process"
    /\ hpc = "idle"
    /\ cur = NoCall
    /\ seq = 0
    /\ dev = NULL_DEV
    /\ max = 0
    /\ r = 0
    /\ ret_error = NoError
    /\ sent = <<>>
    /\ handles = {}
    /\ io = <<>>
    /\ before = attrs
    /\ prev = NoPrev
    /\ replied = 0
    /\ nenv = 0
    /\ main_r = 0
    /\ unrefs = NoUnrefs
    /\ status = "running"

(***************************************************************************)
(* The bus and the device store: what the outside world does.              *)
(***************************************************************************)
\* A caller's method call reaches the service's connection.
Arrive(call) ==
    /\ pc \in {"process", "handler", "wait"}
    /\ seq + Len(queue) < MaxCalls
    /\ Len(queue) < MaxQueue
    /\ queue' = Append(queue, call)
    /\ UNCHANGED <<present, attrs, pc, hpc, cur, seq, dev, max, r, ret_error,
                   sent, handles, io, before, prev, replied, nenv,
                   main_r, unrefs, status>>

\* The device store changes only while no handler runs: a handler's device
\* I/O is taken to be atomic with respect to hot-plug and hardware changes.
BetweenCalls == pc \in {"process", "wait"} /\ hpc = "idle"

EnvStep ==
    /\ BetweenCalls
    /\ nenv < MaxEnvSteps
    /\ nenv' = nenv + 1
    /\ prev' = NoPrev
    /\ io' = <<>>
    /\ before' = attrs'
    /\ UNCHANGED <<queue, pc, hpc, cur, seq, dev, max, r, ret_error, sent, handles,
                   replied,
                   main_r, unrefs, status>>

Plug(d) ==
    /\ d \notin present
    /\ present' = present \cup {d}
    /\ UNCHANGED attrs
    /\ EnvStep

Unplug(d) ==
    /\ d \in present
    /\ present' = present \ {d}
    /\ UNCHANGED attrs
    /\ EnvStep

\* The hardware or the kernel changes an attribute of a backlight device.
HwSetAttr(d, a, t) ==
    /\ d \in present
    /\ attrs[d][a] # t
    /\ attrs' = [attrs EXCEPT ![d][a] = t]
    /\ UNCHANGED present
    /\ EnvStep

(***************************************************************************)
(* Device resolution (lines 58-67, 109-118, 144-153, 179-188, 237-246 and  *)
(* get_first_matching_device, lines 202-218).                              *)
(***************************************************************************)
\* !strlen(backlight_interface)
NoInterface(name) == name = ""

\* A null check that never fires.
DeviceMissing_never(d) == FALSE

\* !dev
DeviceMissing(d) == d = NULL_DEV

\* An enumeration that lists devices that are no longer there.
get_first_matching_device_stale(subsystem) ==
    {Handle(seq, d) : d \in SubsystemDevices(subsystem)}

\* What `dev` holds after get_first_matching_device(&dev, subsystem): a new
\* handle for the first list entry, whichever the enumeration puts first.
\* With an empty list the loop body never runs and dev is left as it was,
\* unassigned: the handler then reads an indeterminate pointer, which may
\* compare as null or as non-null.
get_first_matching_device(subsystem) ==
    LET list == present \cap SubsystemDevices(subsystem) IN
    IF list = {} THEN {NULL_DEV, WILD_DEV}
    ELSE {Handle(seq, d) : d \in list}

\* udev_device_new_from_subsystem_sysname(udev, subsystem, name)
udev_device_new_from_subsystem_sysname(subsystem, name) ==
    IF name \in present \cap SubsystemDevices(subsystem)
    THEN Handle(seq, name) ELSE NULL_DEV

ResolveOutcomes(subsystem, name) ==
    IF NoInterface(name) THEN get_first_matching_device(subsystem)
    ELSE {udev_device_new_from_subsystem_sysname(subsystem, name)}

FileNotFound ==
    BusError(SD_BUS_ERROR_FILE_NOT_FOUND, "Device does not exist.", 0)

\* The resolution block of a handler; `next` is the handler's next position.
Resolve(subsystem, next) ==
    \E d \in ResolveOutcomes(subsystem, cur.name) :
        /\ dev' = d
        /\ handles' = IF IsDevice(d) THEN handles \cup {d} ELSE handles
        /\ io' = Append(io, Event(IF NoInterface(cur.name) THEN "enumerate" ELSE "lookup",
                                  d, subsystem, <<>>, 0))
        /\ IF DeviceMissing(d)
           THEN /\ ret_error' = FileNotFound
                /\ r' = -1
                /\ hpc' = "return"
           ELSE /\ hpc' = next
                /\ UNCHANGED <<ret_error, r,
                   main_r, unrefs, status>>
        /\ UNCHANGED <<present, attrs, queue, pc, cur, seq, max, sent, before,
                       prev, replied, nenv,
                   main_r, unrefs, status>>

(***************************************************************************)
(* Attribute access.                                                       *)
(***************************************************************************)
\* An attribute cache filled when the service started.
SysattrOutcomes_cached(d, attr) ==
    IF IsDevice(d) THEN {InitAttrs[d.dev][attr]} ELSE HwTexts

\* udev_device_get_sysattr_value(dev, attr): the attribute's text or NULL;
\* through an indeterminate pointer, anything.
SysattrOutcomes(d, attr) ==
    IF IsDevice(d) THEN {attrs[d.dev][attr]} ELSE HwTexts

\* atoi(text).  atoi(NULL) dereferences the null pointer: the process is
\* killed (action Crash) or, where that read is tolerated, yields no digits.
AtoiOutcomes(text) ==
    IF text = NULL THEN {0} ELSE {atoi(text)}

\* udev_device_unref(dev)
Unref(d) == handles \ {d}

(***************************************************************************)
(* method_setbrightness (lines 40-92).                                     *)
(***************************************************************************)
\* A lower bound that is off by one.
ValueBelowZero_off_by_one(value) == value < -1

\* value < 0 (line 53)
ValueBelowZero(value) == value < 0

\* An upper-bound comparison that is the wrong way round.
ValueAboveMax_inverted(value, m) == value < m

\* value > max (line 73)
ValueAboveMax(value, m) == value > m

\* A result check that never fires.
WriteFailed_never(rc) == FALSE

\* r < 0 after udev_device_set_sysattr_value (line 81)
WriteFailed(rc) == rc < 0

\* Lines 52-56.
method_setbrightness_check ==
    /\ hpc = "set_check"
    /\ IF ValueBelowZero(cur.value)
       THEN /\ ret_error' = BusError(SD_BUS_ERROR_INVALID_ARGS,
                                     "Value must be greater or equal to 0.", 0)
            /\ r' = -22
            /\ hpc' = "return"
       ELSE /\ hpc' = "set_resolve"
            /\ UNCHANGED <<ret_error, r,
                   main_r, unrefs, status>>
    /\ UNCHANGED <<present, attrs, queue, pc, cur, seq, dev, max, sent, handles,
                   io, before, prev, replied, nenv,
                   main_r, unrefs, status>>

\* Lines 58-67.
method_setbrightness_resolve ==
    /\ hpc = "set_resolve"
    /\ Resolve("backlight", "set_validate")

\* Lines 69-76: the early return leaves dev referenced.
method_setbrightness_validate ==
    /\ hpc = "set_validate"
    /\ \E text \in SysattrOutcomes(dev, "max_brightness") :
       \E m \in AtoiOutcomes(text) :
        /\ max' = m
        /\ io' = Append(io, Event("read", dev, "max_brightness", text, 0))
        /\ IF ValueAboveMax(cur.value, m)
           THEN /\ ret_error' = BusError(SD_BUS_ERROR_INVALID_ARGS,
                                         "Value must be smaller than %d.", m)
                /\ r' = -22
                /\ hpc' = "return"
           ELSE /\ hpc' = "set_write"
                /\ UNCHANGED <<ret_error, r,
                   main_r, unrefs, status>>
    /\ UNCHANGED <<present, attrs, queue, pc, cur, seq, dev, sent, handles,
                   before, prev, replied, nenv,
                   main_r, unrefs, status>>

\* char val[10] (line 78)
ValBufSize == 10

\* sprintf(val, "%d", value) writes the digits and a terminating zero: more
\* bytes than val holds when the text has ValBufSize characters or more.
BufferOverrun(value) == Len(sprintf_d(value)) + 1 > ValBufSize

\* The values udev_device_set_sysattr_value may return: the operating
\* system rejects the write (a negative errno) or accepts it.  Through an
\* indeterminate pointer the write reaches no device.
WriteResults == {-13, 0}

\* Lines 78-91.
method_setbrightness_write ==
    /\ hpc = "set_write"
    /\ LET val == sprintf_d(cur.value) IN
       \E rc \in WriteResults :
        /\ attrs' = IF IsDevice(dev) /\ rc >= 0
                    THEN [attrs EXCEPT ![dev.dev]["brightness"] = val]
                    ELSE attrs
        /\ handles' = Unref(dev)
        /\ io' = io \o <<Event("write", dev, "brightness", val, rc)>>
                    \o (IF WriteFailed(rc) THEN <<>>
                        ELSE <<Event("sysname", dev, "", <<>>, 0)>>)
                    \o <<Event("unref", dev, "", <<>>, 0)>>
        /\ IF WriteFailed(rc)
           THEN /\ ret_error' = BusError(SD_BUS_ERROR_ACCESS_DENIED,
                                         "Not authorized.", 0)
                /\ r' = rc
                /\ UNCHANGED sent
           ELSE /\ sent' = Append(sent, MethodReturn(cur.value))
                /\ r' = 1
                /\ UNCHANGED ret_error
    /\ hpc' = "return"
    /\ UNCHANGED <<present, queue, pc, cur, seq, dev, max, before, prev, replied, nenv,
                   main_r, unrefs, status>>

(***************************************************************************)
(* method_getbrightness, method_getmaxbrightness,                          *)
(* method_getactualbrightness (lines 97-197): the same code but for the    *)
(* attribute read.                                                         *)
(***************************************************************************)
GetterResolve(op) ==
    /\ hpc = "get_resolve"
    /\ cur.op = op
    /\ Resolve("backlight", "get_read")

\* A getter that stores the number it parsed back into the attribute.
GetterRead_normalising(op) ==
    /\ hpc = "get_read"
    /\ cur.op = op
    /\ \E text \in SysattrOutcomes(dev, GetterAttr(op)) :
       \E x \in AtoiOutcomes(text) :
        /\ io' = io \o <<Event("read", dev, GetterAttr(op), text, 0),
                         Event("unref", dev, "", <<>>, 0)>>
        /\ sent' = Append(sent, MethodReturn(x))
        /\ attrs' = IF IsDevice(dev)
                    THEN [attrs EXCEPT ![dev.dev][GetterAttr(op)] = sprintf_d(x)]
                    ELSE attrs
    /\ handles' = Unref(dev)
    /\ r' = 1
    /\ hpc' = "return"
    /\ UNCHANGED <<present, queue, pc, cur, seq, dev, max, ret_error,
                   before, prev, replied, nenv, main_r, unrefs, status>>

\* x = atoi(udev_device_get_sysattr_value(dev, attr)); unref; reply x.
GetterRead(op) ==
    /\ hpc = "get_read"
    /\ cur.op = op
    /\ \E text \in SysattrOutcomes(dev, GetterAttr(op)) :
       \E x \in AtoiOutcomes(text) :
        /\ io' = io \o <<Event("read", dev, GetterAttr(op), text, 0),
                         Event("unref", dev, "", <<>>, 0)>>
        /\ sent' = Append(sent, MethodReturn(x))
    /\ handles' = Unref(dev)
    /\ r' = 1
    /\ hpc' = "return"
    /\ UNCHANGED <<present, attrs, queue, pc, cur, seq, dev, max, ret_error,
                   before, prev, replied, nenv,
                   main_r, unrefs, status>>

method_getbrightness ==
    GetterResolve("getbrightness") \/ GetterRead("getbrightness")

method_getmaxbrightness ==
    GetterResolve("getmaxbrightness") \/ GetterRead("getmaxbrightness")

method_getactualbrightness ==
    GetterResolve("getactualbrightness") \/ GetterRead("getactualbrightness")

(***************************************************************************)
(* method_captureframes (lines 224-256).                                   *)
(***************************************************************************)
method_captureframes_resolve ==
    /\ hpc = "capture_resolve"
    /\ Resolve("video4linux", "capture")

\* capture_frames is external: it returns some average.
method_captureframes_capture ==
    /\ hpc = "capture"
    /\ \E val \in CaptureAverages :
        sent' = Append(sent, MethodReturn(val))
    /\ io' = io \o <<Event("capture", dev, "devnode", <<>>, 0),
                     Event("sysname", dev, "", <<>>, 0),
                     Event("unref", dev, "", <<>>, 0)>>
    /\ handles' = Unref(dev)
    /\ r' = 1
    /\ hpc' = "return"
    /\ UNCHANGED <<present, attrs, queue, pc, cur, seq, dev, max, ret_error,
                   before, prev, replied, nenv,
                   main_r, unrefs, status>>

(***************************************************************************)
(* Undefined behaviour that ends the process: a dereference of the null    *)
(* pointer in atoi or of an indeterminate dev, or a write past the end of  *)
(* val.  Where such a step does not end the process, the handler's action  *)
(* goes on with it.                                                        *)
(***************************************************************************)
Dereferences ==
    \/ /\ hpc \in {"set_validate", "set_write", "get_read", "capture"}
       /\ dev = WILD_DEV
    \/ /\ hpc = "set_write"
       /\ BufferOverrun(cur.value)
    \/ /\ hpc = "set_validate"
       /\ NULL \in SysattrOutcomes(dev, "max_brightness")
    \/ /\ hpc = "get_read"
       /\ NULL \in SysattrOutcomes(dev, GetterAttr(cur.op))

Crash ==
    /\ pc = "handler"
    /\ Dereferences
    /\ pc' = "crashed"
    /\ hpc' = "dead"
    /\ UNCHANGED <<present, attrs, queue, cur, seq, dev, max, r, ret_error,
                   sent, handles, io, before, prev, replied, nenv,
                   main_r, unrefs, status>>

(***************************************************************************)
(* main (lines 259-323): the request loop.                                 *)
(***************************************************************************)
\* The subsystem a method resolves its device in (lines 60-62, 111-113,
\* 146-148, 181-183, 239-241).
SubsystemOf(op) == IF op = "captureframes" THEN "video4linux" ELSE "backlight"

\* A setbrightness that goes to the device before it looks at the value.
HandlerEntry_resolve_first(op) ==
    CASE op = "setbrightness" -> "set_resolve"
      [] op \in Getters -> "get_resolve"
      [] op = "captureframes" -> "capture_resolve"

\* The first position of the handler the vtable binds to a method.
HandlerEntry(op) ==
    CASE op = "setbrightness" -> "set_check"
      [] op \in Getters -> "get_resolve"
      [] op = "captureframes" -> "capture_resolve"

\* A dispatch that hands the call over and goes on with the loop.
LoopAfterDispatch_detached == "process"

\* Where main is while the vtable callback runs: sd_bus_process calls it
\* and does not return before it has returned.
LoopAfterDispatch == "handler"

\* sd_bus_process (line 294) with a call queued: the call is taken off the
\* queue and its handler entered.  The handler's locals start unassigned.
\* The bus checks a call's signature against the vtable before the handler
\* runs, so sd_bus_message_read (lines 46, 103, 138, 173, 231) succeeds.
sd_bus_process_dispatch ==
    /\ pc = "process"
    /\ queue # <<>>
    /\ cur' = Head(queue)
    /\ queue' = Tail(queue)
    /\ seq' = seq + 1
    /\ pc' = LoopAfterDispatch
    /\ hpc' = HandlerEntry(Head(queue).op)
    /\ dev' = WILD_DEV
    /\ max' = 0
    /\ r' = 0
    /\ ret_error' = NoError
    /\ sent' = <<>>
    /\ io' = <<>>
    /\ before' = attrs
    /\ UNCHANGED <<present, attrs, handles, prev, replied, nenv,
                   main_r, unrefs, status>>

\* The handler returns into sd_bus_process: a negative return value is
\* turned into an error reply carrying *ret_error; sd_bus_process returns
\* r > 0 and the loop continues (lines 301-303).
handler_return ==
    /\ hpc = "return"
    /\ LET out == IF r < 0 THEN Append(sent, ErrorReply(ret_error)) ELSE sent IN
        /\ prev' = [call |-> cur, sent |-> out]
        /\ replied' = IF out # <<>> THEN replied + 1 ELSE replied
    /\ cur' = NoCall
    /\ hpc' = "idle"
    /\ pc' = "process"
    /\ dev' = NULL_DEV
    /\ max' = 0
    /\ r' = 0
    /\ ret_error' = NoError
    /\ sent' = <<>>
    /\ main_r' = 1
    /\ UNCHANGED <<present, attrs, queue, seq, handles, io, before, nenv,
                   unrefs, status>>

\* A loop that goes to wait after every sd_bus_process, queued calls or not.
sd_bus_process_idle_eager ==
    /\ pc = "process"
    /\ main_r' = 0
    /\ pc' = "wait"
    /\ UNCHANGED <<present, attrs, queue, hpc, cur, seq, dev, max, r, ret_error,
                   sent, handles, io, before, prev, replied, nenv,
                   unrefs, status>>

\* sd_bus_process returns 0: nothing to process, go and wait (line 306).
sd_bus_process_idle ==
    /\ pc = "process"
    /\ queue = <<>>
    /\ main_r' = 0
    /\ pc' = "wait"
    /\ UNCHANGED <<present, attrs, queue, hpc, cur, seq, dev, max, r, ret_error,
                   sent, handles, io, before, prev, replied, nenv,
                   unrefs, status>>

\* sd_bus_wait returns once the connection has something to process.
sd_bus_wait ==
    /\ pc = "wait"
    /\ queue # <<>>
    /\ main_r' = 1
    /\ pc' = "process"
    /\ UNCHANGED <<present, attrs, queue, hpc, cur, seq, dev, max, r, ret_error,
                   sent, handles, io, before, prev, replied, nenv,
                   unrefs, status>>

\* sd_bus_process or sd_bus_wait returns r < 0: goto finish (lines 295-298,
\* 307-310).
bus_error ==
    /\ pc \in {"process", "wait"}
    /\ \E e \in BusErrnos : main_r' = e
    /\ pc' = "finish"
    /\ UNCHANGED <<present, attrs, queue, hpc, cur, seq, dev, max, r, ret_error,
                   sent, handles, io, before, prev, replied, nenv,
                   unrefs, status>>

\* finish: (lines 313-322).  slot and bus are non-null once the loop has
\* been entered, so each is unreferenced, and so is udev; the exit status
\* follows r.
finish ==
    /\ pc = "finish"
    /\ unrefs' = [slot |-> unrefs.slot + 1, bus |-> unrefs.bus + 1,
                  udev |-> unrefs.udev + 1]
    /\ status' = IF main_r < 0 THEN "EXIT_FAILURE" ELSE "EXIT_SUCCESS"
    /\ pc' = "exited"
    /\ UNCHANGED <<present, attrs, queue, hpc, cur, seq, dev, max, r, ret_error,
                   sent, handles, io, before, prev, replied, nenv,
                   main_r>>

Next ==
    \/ \E call \in MethodCalls : Arrive(call)
    \/ \E d \in Devices : Plug(d)
    \/ \E d \in Devices : Unplug(d)
    \/ \E d \in Backlight, a \in Attributes, t \in HwTexts : HwSetAttr(d, a, t)
    \/ sd_bus_process_dispatch
    \/ sd_bus_process_idle
    \/ sd_bus_wait
    \/ bus_error
    \/ finish
    \/ method_setbrightness_check
    \/ method_setbrightness_resolve
    \/ method_setbrightness_validate
    \/ method_setbrightness_write
    \/ method_getbrightness
    \/ method_getmaxbrightness
    \/ method_getactualbrightness
    \/ method_captureframes_resolve
    \/ method_captureframes_capture
    \/ handler_return
    \/ Crash

Spec == Init /\ [][Next]_vars

\* The steps of the service itself: main's loop and the handler it runs.
\* The process is a single thread that runs whenever it can, so a step of
\* the service that stays possible is eventually taken; nothing is assumed
\* of the callers, the device store or the transport.
ServiceStep ==
    \/ sd_bus_process_dispatch
    \/ sd_bus_process_idle
    \/ sd_bus_wait
    \/ method_setbrightness_check
    \/ method_setbrightness_resolve
    \/ method_setbrightness_validate
    \/ method_setbrightness_write
    \/ method_getbrightness
    \/ method_getmaxbrightness
    \/ method_getactualbrightness
    \/ method_captureframes_resolve
    \/ method_captureframes_capture
    \/ handler_return

LiveSpec == Spec /\ WF_vars(ServiceStep)

TypeOK ==
    /\ present \subseteq Devices
    /\ pc \in {"process", "handler", "wait", "finish", "exited", "crashed"}
    /\ Len(queue) <= MaxQueue
    /\ seq <= MaxCalls

(***************************************************************************)
(* Vocabulary of the properties.                                           *)
(***************************************************************************)
\* A call has completed and nothing has happened to the devices since:
\* prev is its record, io its device events, before the attributes it found.
Completed == cur = NoCall /\ prev.call # NoCall

\* The step in which the handler returns and the reply is complete.
ReturnStep == hpc = "return" /\ hpc' = "idle"

\* The handle a call's resolution produced, given the call's events.
ResolvedA(log) == log # <<>> /\ IsDevice(log[1].h)
Writes(log) == {i \in DOMAIN log : log[i].ev = "write"}
Reads(log) == {i \in DOMAIN log : log[i].ev = "read"}
WriteRejected(log) == \E i \in Writes(log) : log[i].rc < 0

IsReturn(replies, val) == replies = <<MethodReturn(val)>>
IsError(replies, name) ==
    /\ Len(replies) = 1
    /\ replies[1].kind = "error"
    /\ replies[1].err.name = name

(***************************************************************************)
(* C1: read-after-write consistency.                                       *)
(***************************************************************************)
\* call is a setbrightness(name, value) on an existing device with
\* 0 <= value <= max_brightness(name).
C1_InRange(call) ==
    /\ call.op = "setbrightness"
    /\ call.name \in Backlight \cap present
    /\ before[call.name]["max_brightness"] # NULL
    /\ 0 <= call.value
    /\ call.value <= atoi(before[call.name]["max_brightness"])

\* C1: a setbrightness(name, value) on an existing device with
\* 0 <= value <= max_brightness(name) replies with value (when the operating
\* system accepts the write; C6 is about the write it rejects), and the
\* getbrightness(name) dispatched next, with no change of the devices in
\* between, replies with that same value.
C1_ReadAfterWrite ==
    [][/\ ReturnStep =>
           /\ (C1_InRange(cur) /\ ~WriteRejected(io))
              => IsReturn(prev'.sent, cur.value)
           /\ (/\ cur.op = "getbrightness"
               /\ cur.name = prev.call.name
               /\ C1_InRange(prev.call)
               /\ IsReturn(prev.sent, prev.call.value))
              => IsReturn(prev'.sent, prev.call.value)
       /\ C1_InRange(cur) => pc' # "crashed"]_vars

\* Lemma: the same holds of every call whose value fits val, and a value
\* that was written is read back as itself.
ReadAfterWrite_WithinBuffer ==
    [][/\ ReturnStep =>
           /\ (C1_InRange(cur) /\ ~WriteRejected(io))
              => IsReturn(prev'.sent, cur.value)
           /\ (/\ cur.op = "getbrightness"
               /\ cur.name = prev.call.name
               /\ C1_InRange(prev.call)
               /\ IsReturn(prev.sent, prev.call.value))
              => IsReturn(prev'.sent, prev.call.value)
       /\ (C1_InRange(cur) /\ ~BufferOverrun(cur.value)) => pc' # "crashed"]_vars

(***************************************************************************)
(* C2: a value above max_brightness is rejected.                           *)
(***************************************************************************)
\* call is a setbrightness that resolved an existing device whose
\* max_brightness is below the value.
C2_AboveMax(call, log) ==
    /\ call.op = "setbrightness"
    /\ ResolvedA(log)
    /\ before[log[1].h.dev]["max_brightness"] # NULL
    /\ call.value > atoi(before[log[1].h.dev]["max_brightness"])

\* C2: a setbrightness with value > max_brightness of the device fails with
\* InvalidArgs carrying the device's max_brightness, writes nothing and
\* leaves every attribute as it was.
C2_AboveMaxRejected ==
    /\ (Completed /\ C2_AboveMax(prev.call, io)) =>
        /\ prev.sent = <<ErrorReply(BusError(SD_BUS_ERROR_INVALID_ARGS,
                "Value must be smaller than %d.",
                atoi(before[io[1].h.dev]["max_brightness"])))>>
        /\ Writes(io) = {}
        /\ attrs = before
    /\ pc = "crashed" => ~C2_AboveMax(cur, io)

C2_Witness ==
    /\ Completed
    /\ C2_AboveMax(prev.call, io)
    /\ prev.call.value = 10
    /\ IsError(prev.sent, SD_BUS_ERROR_INVALID_ARGS)
    /\ prev.sent[1].err.arg = 5

(***************************************************************************)
(* C3: a negative value is rejected.                                       *)
(***************************************************************************)
C3_Negative(call) == call.op = "setbrightness" /\ call.value < 0

\* C3: a setbrightness with value < 0 fails with InvalidArgs, whatever the
\* device name, and leaves the attributes of every device as they were.
C3_NegativeRejected ==
    /\ (Completed /\ C3_Negative(prev.call)) =>
        /\ IsError(prev.sent, SD_BUS_ERROR_INVALID_ARGS)
        /\ attrs = before
    /\ pc = "crashed" => ~C3_Negative(cur)

C3_Witness ==
    /\ Completed
    /\ C3_Negative(prev.call)
    /\ prev.call.name = "intel_backlight"
    /\ "intel_backlight" \in present
    /\ IsError(prev.sent, SD_BUS_ERROR_INVALID_ARGS)

(***************************************************************************)
(* C4: an empty name on an empty subsystem.                                *)
(***************************************************************************)
\* call has an empty device name, its subsystem has no device, and it is
\* not a setbrightness already rejected for a negative value.
C4_EmptySubsystem(call) ==
    /\ call.op # "none"
    /\ call.name = ""
    /\ present \cap SubsystemDevices(SubsystemOf(call.op)) = {}
    /\ ~C3_Negative(call)

\* C4: with no device in the subsystem, a call with an empty name fails with
\* FileNotFound, and reads and writes no attribute.
C4_EmptySubsystemNotFound ==
    /\ (Completed /\ C4_EmptySubsystem(prev.call)) =>
        /\ prev.sent = <<ErrorReply(FileNotFound)>>
        /\ Reads(io) = {}
        /\ Writes(io) = {}
    /\ pc = "crashed" => ~C4_EmptySubsystem(cur)

(***************************************************************************)
(* C5: an absent or unparsable attribute.                                  *)
(***************************************************************************)
\* text is a decimal integer: an optional sign and one or more digits.
IsIntegerText(text) ==
    /\ text # NULL
    /\ text # <<>>
    /\ LET u == IF Head(text) \in {"-", "+"} THEN Tail(text) ELSE text IN
        /\ u # <<>>
        /\ \A i \in DOMAIN u : IsDigit(u[i])

C5_Getter(call, log) == call.op \in Getters /\ ResolvedA(log)

\* C5: a getter replies with the integer stored in the attribute, and with
\* an error when the attribute is absent or is not an integer.
C5_UnparsableIsAnError ==
    /\ (Completed /\ C5_Getter(prev.call, io)) =>
        LET text == before[io[1].h.dev][GetterAttr(prev.call.op)] IN
        IF IsIntegerText(text)
        THEN IsReturn(prev.sent, atoi(text))
        ELSE Len(prev.sent) = 1 /\ prev.sent[1].kind = "error"
    /\ pc = "crashed" => ~C5_Getter(cur, io)

(***************************************************************************)
(* C6: a failed write.                                                     *)
(***************************************************************************)
C6_WriteFailed(call, log) == call.op = "setbrightness" /\ WriteRejected(log)

\* C6: a setbrightness whose write of the brightness attribute failed
\* replies with the error AccessDenied and with nothing else.
C6_WriteFailureDenied ==
    /\ (Completed /\ C6_WriteFailed(prev.call, io)) =>
        IsError(prev.sent, SD_BUS_ERROR_ACCESS_DENIED)
    /\ C6_WriteFailed(cur, io) => (sent = <<>> /\ pc # "crashed")

C6_Witness ==
    /\ Completed
    /\ C6_WriteFailed(prev.call, io)
    /\ ResolvedA(io)
    /\ IsError(prev.sent, SD_BUS_ERROR_ACCESS_DENIED)

(***************************************************************************)
(* C7: a name that matches no device.                                      *)
(***************************************************************************)
C7_NoSuchName(call) ==
    /\ call.op # "none"
    /\ call.name # ""
    /\ call.name \notin present \cap SubsystemDevices(SubsystemOf(call.op))

\* The call fails with FileNotFound, has acquired no handle and has left
\* the attributes of every device as they were.
C7_NotFoundNoEffect ==
    /\ prev.sent = <<ErrorReply(FileNotFound)>>
    /\ \A i \in DOMAIN io : ~IsDevice(io[i].h)
    /\ \A h \in handles : h.call # seq
    /\ Reads(io) = {} /\ Writes(io) = {}
    /\ attrs = before

\* C7 as stated: every operation on a non-empty name that matches no device
\* fails with FileNotFound and has no effect.
C7_Original ==
    /\ (Completed /\ C7_NoSuchName(prev.call)) => C7_NotFoundNoEffect
    /\ pc = "crashed" => ~C7_NoSuchName(cur)

\* C7 as amended: every operation on a non-empty name that matches no device,
\* but for a setbrightness with a negative value (which fails with
\* InvalidArgs before the name is looked up), fails with FileNotFound and
\* has no effect.
C7_NoSuchNameNotFound ==
    /\ (Completed /\ C7_NoSuchName(prev.call) /\ ~C3_Negative(prev.call))
        => C7_NotFoundNoEffect
    /\ pc = "crashed" => ~C7_NoSuchName(cur)

C7_Witness ==
    /\ Completed
    /\ C7_NoSuchName(prev.call)
    /\ prev.call.op = "getbrightness"
    /\ IsError(prev.sent, SD_BUS_ERROR_FILE_NOT_FOUND)

(***************************************************************************)
(* C8: sequential dispatch.                                                *)
(***************************************************************************)
\* A step of the running handler.
HandlerStep == hpc \notin {"idle", "dead"} /\ hpc' # hpc

\* C8: a call is dispatched only when every call dispatched before it has
\* been replied to, every step of a handler is taken while all earlier
\* calls have been replied to, and at most one call is in dispatch.
C8_SequentialDispatch ==
    [][/\ seq' # seq => (cur = NoCall /\ replied = seq)
       /\ HandlerStep => (replied = seq - 1 /\ seq' = seq)
       /\ seq' - replied' <= 1]_vars

\* The second call of the run is in its handler, doing device I/O, and the
\* first has been replied to.
C8_Witness ==
    /\ seq = 2
    /\ replied = 1
    /\ pc = "handler"
    /\ io # <<>>

(***************************************************************************)
(* C9: exactly one reply per dispatched call.                              *)
(***************************************************************************)
TypedErrors ==
    {SD_BUS_ERROR_INVALID_ARGS, SD_BUS_ERROR_FILE_NOT_FOUND,
     SD_BUS_ERROR_ACCESS_DENIED}

OneReply(replies) ==
    /\ Len(replies) = 1
    /\ replies[1].kind = "return" \/ replies[1].err.name \in TypedErrors

\* C9: once the handler of a dispatched call has stopped running, the call
\* has received exactly one reply, a method return or one typed error.
C9_ExactlyOneReply ==
    /\ Completed => OneReply(prev.sent)
    /\ cur = NoCall => replied = seq
    /\ pc = "crashed" => OneReply(sent)

(***************************************************************************)
(* C10: the empty name and the only device's name.                         *)
(***************************************************************************)
\* C10: with exactly one backlight device, a getbrightness by its name and
\* a getbrightness with the empty name, one dispatched after the other with
\* no change of the devices in between, get the same single reply.
C10_SameDevice ==
    [][(/\ ReturnStep
        /\ cur.op = "getbrightness"
        /\ prev.call.op = "getbrightness"
        /\ cur.name # prev.call.name
        /\ Cardinality(present \cap Backlight) = 1
        /\ {cur.name, prev.call.name} = {""} \cup (present \cap Backlight))
       => (Len(prev.sent) = 1 /\ prev'.sent = prev.sent)]_vars

C10_Witness ==
    /\ hpc = "return"
    /\ present \cap Backlight = {"intel_backlight"}
    /\ cur = [op |-> "getbrightness", name |-> "", value |-> 0]
    /\ prev.call = [op |-> "getbrightness", name |-> "intel_backlight", value |-> 0]
    /\ Len(sent) = 1
    /\ sent = prev.sent

(***************************************************************************)
(* C11: device handles are released on every exit path.                    *)
(***************************************************************************)
\* C11: whenever no call is in dispatch, every device handle a handler
\* acquired has been released: none is left referenced.
C11_HandlesReleased ==
    cur = NoCall => handles = {}

(***************************************************************************)
(* C12: the request loop as the machine Draining / Waiting.                *)
(***************************************************************************)
\* Draining: main is in sd_bus_process (line 294), a handler running or not.
\* Waiting: main is in sd_bus_wait (line 306).
Draining == pc \in {"process", "handler"}
Waiting == pc = "wait"

\* C12: the loop starts in Draining; a call is dispatched only in Draining
\* and the loop is in Draining again when its handler has returned; the loop
\* moves from Draining to Waiting only with no call queued, and from Waiting
\* to Draining only with a call queued; in Waiting with a call queued the
\* wait is over (sd_bus_wait can return), so the loop does not block there.
C12_DrainingWaiting ==
    /\ Draining
    /\ [][/\ seq' # seq => (pc = "process" /\ Draining')
          /\ ReturnStep => pc' = "process"
          /\ (Draining /\ Waiting') => (pc = "process" /\ queue = <<>>)
          /\ (Waiting /\ Draining') => (pc' = "process" /\ queue # <<>>)
          /\ (Waiting /\ queue # <<>>) => ENABLED sd_bus_wait]_vars

\* A call has been dispatched and replied to, the loop has gone to Waiting,
\* and another call has arrived meanwhile.
C12_Witness ==
    /\ Waiting
    /\ queue # <<>>
    /\ seq = 1
    /\ replied = 1

(***************************************************************************)
(* C13: a transport error is fatal.                                        *)
(***************************************************************************)
\* main is inside the for (;;) of lines 292-311.
InLoop == pc \in {"process", "handler", "wait"}

AllUnrefOnce == [slot |-> 1, bus |-> 1, udev |-> 1]

\* After a bus operation has reported an error no call is dispatched and no
\* bus operation is attempted; the process ends with slot, bus and udev
\* each unreferenced once and the status EXIT_FAILURE, and none of them is
\* unreferenced before.
AfterTransportError ==
    /\ ~InLoop => (seq' = seq /\ queue' = queue /\ ~InLoop')
    /\ pc' = "exited" => (unrefs' = AllUnrefOnce /\ status' = "EXIT_FAILURE")
    /\ pc' # "exited" => (unrefs' = NoUnrefs /\ status' = "running")

\* C13: a transport error ends the loop for good, with every object of main
\* released once and a failure status, and nothing but a transport error
\* ends the loop.
C13_TransportErrorFatal ==
    [][/\ AfterTransportError
       /\ (InLoop /\ ~InLoop') => (pc' = "finish" /\ main_r' < 0)]_vars

\* Lemma: the same, but for the death of the process inside a handler.
TransportErrorFatal_ButForDeath ==
    [][/\ AfterTransportError
       /\ (InLoop /\ ~InLoop' /\ pc' # "crashed")
          => (pc' = "finish" /\ main_r' < 0)]_vars

(***************************************************************************)
(* C14: liveness of the request loop.                                      *)
(***************************************************************************)
\* No bus operation ever reports an error.
NoTransportError == [](pc \notin {"finish", "exited"})

\* Every device operation returns: the process never dies inside a udev
\* call entered with an indeterminate dev.
DeviceOperationsReturn == [](pc = "crashed" => IsDevice(dev))

\* The n-th call of the run has been queued / has been replied to.
Queued(n) == seq + Len(queue) >= n
Replied(n) == replied >= n

\* C14: with no transport error and every device operation returning, every
\* call the transport has queued is eventually dispatched and replied to.
C14_EveryCallReplied ==
    (NoTransportError /\ DeviceOperationsReturn)
        => \A n \in 1..MaxCalls : Queued(n) ~> Replied(n)

\* Lemma: the same, but for the death of the process inside a handler.
EveryCallReplied_ButForDeath ==
    (NoTransportError /\ [](pc # "crashed"))
        => \A n \in 1..MaxCalls : Queued(n) ~> Replied(n)

(***************************************************************************)
(* C15: written values are within the bounds read in the same call.        *)
(***************************************************************************)
\* The step in which method_setbrightness calls
\* udev_device_set_sysattr_value (line 80).
WriteStep == hpc = "set_write" /\ hpc' = "return"

\* The events of the running call hold a read of max_brightness on dev, the
\* handle this call resolved.
MaxReadInThisCall ==
    \E i \in Reads(io) :
        /\ io[i].h = dev
        /\ io[i].attr = "max_brightness"
        /\ dev.call = seq

\* C15: the service changes an attribute only in the write step of a
\* setbrightness; the value it writes there is at least 0 and at most max,
\* and max was read from the handle of this same call: it is the device's
\* max_brightness as it is now, whatever it was during earlier calls.
C15_WriteWithinFreshMax ==
    [][/\ (pc = "handler" /\ attrs' # attrs) => WriteStep
       /\ (WriteStep /\ IsDevice(dev)) =>
            /\ MaxReadInThisCall
            /\ 0 <= cur.value /\ cur.value <= max
            /\ attrs[dev.dev]["max_brightness"] # NULL
                => max = atoi(attrs[dev.dev]["max_brightness"])
            /\ attrs' # attrs =>
                /\ attrs' = [attrs EXCEPT ![dev.dev]["brightness"] = sprintf_d(cur.value)]
                /\ atoi(attrs'[dev.dev]["brightness"]) = cur.value]_vars

\* The first call, a setbrightness of 10 to acpi_video0, was rejected for
\* max_brightness 5 (its handle is still referenced); max_brightness then
\* became 10, and the second call has written 10.
C15_Witness ==
    /\ Completed
    /\ seq = 2
    /\ Handle(1, "acpi_video0") \in handles
    /\ prev.call.op = "setbrightness"
    /\ ResolvedA(io)
    /\ io[1].h = Handle(2, "acpi_video0")
    /\ IsReturn(prev.sent, 10)
    /\ attrs["acpi_video0"]["max_brightness"] = <<"1", "0">>
    /\ attrs["acpi_video0"]["brightness"] = <<"1", "0">>

(***************************************************************************)
(* C16: a handle is used only by the call that resolved it.                *)
(***************************************************************************)
\* The events in which a handler uses its dev: attribute reads and writes,
\* the capture, the name lookup and the release.
Uses(log) ==
    {i \in DOMAIN log : log[i].ev \in {"read", "write", "capture", "sysname", "unref"}}

\* h is a handle the resolver created during the call now in dispatch.
CreatedInThisCall(h) == IsDevice(h) /\ h.call = seq /\ h.dev \in present

\* C16: every attribute read, attribute write, capture, name lookup and
\* release of the call in dispatch is on a handle the resolver created during
\* this call, and the process does not die using anything else.
C16_HandleOfThisCall ==
    /\ cur # NoCall => \A i \in Uses(io) : CreatedInThisCall(io[i].h)
    /\ pc = "crashed" => CreatedInThisCall(dev)

\* Lemma: the same of every call whose resolution assigned dev.
HandleOfThisCall_WhenAssigned ==
    (cur # NoCall /\ io # <<>> /\ io[1].h # WILD_DEV)
        => \A i \in Uses(io) : CreatedInThisCall(io[i].h)

(***************************************************************************)
(* C17: the getters are read-only.                                         *)
(***************************************************************************)
\* The attributes differ from attrs to attrs' at most in the brightness of
\* device d.
OnlyBrightnessOf(d) ==
    \A e \in Backlight, a \in Attributes :
        (e # d \/ a # "brightness") => attrs'[e][a] = attrs[e][a]

\* C17: no step of the service taken for a getter (or for any call that is
\* not a setbrightness) changes an attribute of any device; a step of the
\* service that changes one belongs to a setbrightness, is the step that
\* sends its success reply, and changes only the brightness of the device
\* the call resolved.
C17_GettersReadOnly ==
    [][/\ (cur.op \in Getters \/ (nenv' = nenv /\ cur.op # "setbrightness"))
            => attrs' = attrs
       /\ (nenv' = nenv /\ attrs' # attrs) =>
            /\ cur.op = "setbrightness"
            /\ IsDevice(dev)
            /\ sent = <<>> /\ IsReturn(sent', cur.value)
            /\ OnlyBrightnessOf(dev.dev)]_vars

\* The second of two calls, a getter, has been replied to, and so has a
\* getter before it, with every attribute as it was.
C17_Witness ==
    /\ Completed
    /\ seq = 2
    /\ nenv = 0
    /\ handles = {}
    /\ prev.call.op = "getmaxbrightness"
    /\ IsReturn(prev.sent, 10)
    /\ attrs = InitAttrs

(***************************************************************************)
(* C18: the negative-value check precedes device resolution.               *)
(***************************************************************************)
\* C18: a setbrightness with value < 0 fails with InvalidArgs and not with
\* FileNotFound, whether or not the named device exists; from its dispatch
\* to its reply it performs no enumeration, lookup, read or write and
\* acquires no device handle.
C18_NegativeBeforeResolution ==
    /\ C3_Negative(cur) =>
        /\ io = <<>>
        /\ \A h \in handles : h.call # seq
        /\ pc # "crashed"
    /\ (Completed /\ C3_Negative(prev.call)) =>
        /\ io = <<>>
        /\ \A h \in handles : h.call # seq
        /\ prev.sent = <<ErrorReply(BusError(SD_BUS_ERROR_INVALID_ARGS,
                "Value must be greater or equal to 0.", 0))>>

\* A negative value for a name that matches no device has been answered
\* with InvalidArgs.
C18_Witness ==
    /\ Completed
    /\ prev.call = [op |-> "setbrightness", name |-> "intel_backlight", value |-> -1]
    /\ "intel_backlight" \notin present
    /\ IsError(prev.sent, SD_BUS_ERROR_INVALID_ARGS)
    /\ io = <<>>

(***************************************************************************)
(* C19: the formatted value fits val.                                      *)
(***************************************************************************)
\* C19: whenever a value has passed validation and is about to be formatted
\* into val, its decimal text and the terminating zero fit the ValBufSize
\* bytes of val: the text has at most ValBufSize - 1 characters.
C19_ValueFitsBuffer ==
    hpc = "set_write" =>
        /\ Len(sprintf_d(cur.value)) + 1 <= ValBufSize
        /\ Len(sprintf_d(cur.value)) <= 9

=============================================================================
